---- MODULE Spec2Model ----
(***************************************************************************)
(* cogent3.util.parallel: imap / map over a local process pool or an MPI   *)
(* pool, the per-worker seed (generate_seed) and the registry _FUNCTIONS   *)
(* read through PicklableAndCallable.                                      *)
(*                                                                         *)
(* One submitting process calls imap repeatedly; each call is a generator  *)
(* whose body runs only when the caller asks for a result.  The pools are  *)
(* concurrent.futures.ProcessPoolExecutor / mpi4py.futures.MPIPoolExecutor *)
(* as imap drives them: every item is submitted by executor.map, workers   *)
(* take queued items in submission order and finish in any order, results  *)
(* are handed back in submission order, and leaving the with-block joins   *)
(* the workers.                                                            *)
(*                                                                         *)
(* Spec is the submitting process and its pools.  SeedSpec applies         *)
(* generate_seed on its own, in any process; ProxySpec invokes one         *)
(* PicklableAndCallable object while the registry changes under it.        *)
(***************************************************************************)
EXTENDS Integers, Sequences, FiniteSets, TLC

\* ------------------------------------------------------------- bounds
MaxCpu == 3          \* multiprocessing.cpu_count() ranges over 1..MaxCpu
MaxLen == 2          \* longest input series s
MaxUniverse == 2     \* MPI.UNIVERSE_SIZE ranges over 1..MaxUniverse
MaxClock == 1        \* int(time.time()) ranges over 0..MaxClock
MaxProcs == 2        \* no new call once this many processes were named
MaxInvocations == 3  \* invocations of one proxy object
MaxNames == 11       \* generate_seed is tried in "<Method>Process-1" .. "-<MaxNames>"

\* ------------------------------------------------------------- inputs
Items == {0, 1}
Funcs == {"succ", "recip"}
Seeds == {<<>>, <<5>>}                       \* seed=None is <<>>
Policies == {"raise", "warn", "ignore", "RAISE", "bogus"}
StartMethods == {"fork", "spawn"}

RECURSIVE SeqsUpTo(_)
SeqsUpTo(n) ==
    IF n = 0 THEN {<<>>}
    ELSE LET shorter == SeqsUpTo(n - 1)
         IN shorter \cup {Append(q, x) : q \in {r \in shorter : Len(r) = n - 1}, x \in Items}

\* max_workers as the caller passes it: None is <<>>, the number n is <<n>>
WorkerArgs == {<<>>} \cup {<<n>> : n \in (-1) .. MaxCpu}

\* ------------------------------------------------------------- errors
ExcInvalidChoice == "AssertionError: invalid choice"
ExcWorkerCount == "AssertionError"
ExcCannotUseMPI == "RuntimeError: Cannot use MPI"
ExcSerial == "RuntimeError: Execution in serial"
ExcWarnCall == "TypeError: warn() got an unexpected keyword argument 'msg'"
ExcUnregistered == "RuntimeError"
ExcPoolSize == "ValueError: max_workers must be greater than 0"
ExcUser == "ZeroDivisionError"
ExcRank == "ValueError: invalid literal for int() with base 10"
ExcNoComm == "NameError: name 'COMM' is not defined"
NoExc == ""

VARIABLES
    cpu_count,        \* multiprocessing.cpu_count()
    start_method,     \* how multiprocessing creates a worker process
    DONT_USE_MPI,     \* os.environ.get('DONT_USE_MPI', 0) is truthy
    mpi4py,           \* `from mpi4py import MPI` was run and succeeded
    UNIVERSE_SIZE,    \* COMM.Get_attr(MPI.UNIVERSE_SIZE); 0 while mpi4py is not imported
    FUNCTIONS,        \* _FUNCTIONS of the submitting process: key -> callable
    process_counter,  \* processes the submitting process has named so far
    clock,            \* int(time.time())
    call,             \* the arguments of the current imap call
    pc,               \* where the generator of the current call stands
    backend,          \* "none", "local" or "mpi": the pool the call created
    workers,          \* the pool's processes
    worker_functions, \* _FUNCTIONS as the pool's processes see it
    futures,          \* one future per submitted item, in submission order
    next_result,      \* position of the next result the generator hands out
    out,              \* the results the caller has received, in order
    err,              \* the exception the caller has received
    pending_exc,      \* the exception travelling through the with-block
    warned,           \* warnings the call has emitted
    spawned,          \* worker processes the call has started
    functions_at_call, \* FUNCTIONS as it was when the call was made
    seed_call,        \* a direct call of generate_seed: its arguments and process
    seed_pc,          \* "none", "ready", "returned" or "raised"
    random_seed,      \* the global random_seed of the process of seed_call
    seed_err,         \* the exception the direct call of generate_seed raised
    proxy,            \* a PicklableAndCallable object: its key and its func
    proxy_calls,      \* invocations of proxy so far
    proxy_result      \* the last invocation of proxy: argument, registry, outcome

env == <<cpu_count, start_method, DONT_USE_MPI, mpi4py, UNIVERSE_SIZE>>
pool == <<backend, workers, worker_functions, futures>>
seedvars == <<seed_call, seed_pc, random_seed, seed_err>>
proxyvars == <<proxy, proxy_calls, proxy_result>>
vars == <<cpu_count, start_method, DONT_USE_MPI, mpi4py, UNIVERSE_SIZE,
          FUNCTIONS, process_counter, clock, call, pc, backend, workers,
          worker_functions, futures, next_result, out, err, pending_exc,
          warned, spawned, functions_at_call,
          seed_call, seed_pc, random_seed, seed_err,
          proxy, proxy_calls, proxy_result>>

\* ---------------------------------------------------------- pure parts

\* the user's function f: "succ" never raises, "recip" raises on 0
Apply(f, x) ==
    IF f = "succ" THEN [exc |-> NoExc, val |-> x + 1]
    ELSE IF x = 0 THEN [exc |-> ExcUser, val |-> 0]
    ELSE [exc |-> NoExc, val |-> 10 \div x]

\* id(f): the identity of the function object, distinct per live object
Id(f) == IF f = "succ" THEN 1 ELSE 2

\* str.lower()
Lower(p) == IF p = "RAISE" THEN "raise" ELSE p

\* the characters int() reads as the digits 0 .. 9
DigitChars == <<"0", "1", "2", "3", "4", "5", "6", "7", "8", "9">>
IsDigit(c) == \E i \in 1 .. 10 : DigitChars[i] = c
\* int(c) for a digit c
IntOf(c) == (CHOOSE i \in 1 .. 10 : DigitChars[i] = c) - 1

\* str(n) for n >= 0, as a sequence of characters
RECURSIVE Digits(_)
Digits(n) ==
    IF n < 10 THEN <<DigitChars[n + 1]>>
    ELSE Digits(n \div 10) \o <<DigitChars[(n % 10) + 1]>>

\* multiprocessing.current_process().name in the submitting process
MainProcess == <<"M", "a", "i", "n", "P", "r", "o", "c", "e", "s", "s">>
\* ... and in the n-th process the submitting process has created
ProcessName(n) ==
    (IF start_method = "fork" THEN <<"F", "o", "r", "k">>
                              ELSE <<"S", "p", "a", "w", "n">>)
    \o <<"P", "r", "o", "c", "e", "s", "s", "-">> \o Digits(n)

\* the name COMM is bound at module level only when mpi4py was imported
CommDefined == ~DONT_USE_MPI /\ mpi4py

\* generate_seed(use_mpi, seed) in the process named process_name whose MPI
\* rank is comm_rank, at time `now`: the exception raised, or the value
\* stored in random_seed
generate_seed(use_mpi, seed, process_name, comm_rank, now) ==
    LET last == process_name[Len(process_name)]
        base == IF seed # <<>> THEN seed[1] ELSE now
        raise(e) == [exc |-> e, random_seed |-> <<>>]
        store(rank) == [exc |-> NoExc, random_seed |-> <<base + rank>>]
    IN  IF use_mpi
        THEN IF CommDefined THEN store(comm_rank) ELSE raise(ExcNoComm)
        ELSE IF IsDigit(last) THEN store(IntOf(last)) ELSE raise(ExcRank)

\* USING_MPI set without looking at MPI
UsingMpiAlways == TRUE

\* module level: MPI is None unless mpi4py imports and the universe is not 1
USING_MPI == ~DONT_USE_MPI /\ mpi4py /\ UNIVERSE_SIZE # 1


\* the assert on if_serial left out
PolicyUnchecked(p) == TRUE

\* the assert on if_serial after if_serial.lower()
PolicyValid(p) == Lower(p) \in {"ignore", "raise", "warn"}

\* `if not max_workers: max_workers = <default>`: None and 0 are both falsy
EffectiveWorkers(mw, default) == IF mw = <<>> \/ mw[1] = 0 THEN default ELSE mw[1]

\* the assert on max_workers written with <= for <
WorkerCountOffByOne(mw) == mw <= cpu_count

\* assert max_workers < multiprocessing.cpu_count()
WorkerCountOk(mw) == mw < cpu_count

\* a pool constructor that takes any worker count
PoolSizeUnchecked(mw) == TRUE

\* the pool constructors refuse a worker count that is not positive
PoolSizeOk(mw) == mw > 0

Fail(e) == [kind |-> "fail", exc |-> e, max_workers |-> 0]

\* the body of imap up to the `with` statement: what the call does with its
\* arguments in this environment
Dispatch(c) ==
    LET if_serial == Lower(c.if_serial)
    IN  IF ~PolicyValid(c.if_serial) THEN Fail(ExcInvalidChoice)
        ELSE IF c.use_mpi
        THEN IF ~USING_MPI THEN Fail(ExcCannotUseMPI)
             ELSE IF UNIVERSE_SIZE = 1 /\ if_serial = "raise" THEN Fail(ExcSerial)
             ELSE IF UNIVERSE_SIZE = 1 /\ if_serial = "warn" THEN Fail(ExcWarnCall)
             ELSE [kind |-> "mpi", exc |-> NoExc,
                   max_workers |-> EffectiveWorkers(c.max_workers, UNIVERSE_SIZE - 1)]
        ELSE LET mw == EffectiveWorkers(c.max_workers, cpu_count - 1)
             IN  IF ~WorkerCountOk(mw) THEN Fail(ExcWorkerCount)
                 ELSE [kind |-> "local", exc |-> NoExc, max_workers |-> mw]

\* every function stored under one and the same key
RegisterUnderOneKey(reg, f) == (1 :> f) @@ reg

\* _FUNCTIONS[key] = f
Register(reg, f) == (Id(f) :> f) @@ reg

\* _FUNCTIONS in a new worker: a forked process inherits the submitting
\* process's table, any other start method imports the module afresh
InheritedFunctions(reg) == IF start_method = "fork" THEN reg ELSE <<>>

\* PicklableAndCallable(key): __init__ stores the key and no function
NewProxy(key) == [key |-> key, func |-> "None"]

\* a proxy that looks its key up on every invocation
ProxyCallUncached(p, reg, x) ==
    IF p.key \in DOMAIN reg
    THEN [proxy |-> [p EXCEPT !.func = reg[p.key]],
          exc |-> Apply(reg[p.key], x).exc, val |-> Apply(reg[p.key], x).val]
    ELSE [proxy |-> p, exc |-> ExcUnregistered, val |-> 0]

\* p.__call__(x) in a process whose table is reg: p as the call leaves it,
\* and the exception raised or the value returned
ProxyCall(p, reg, x) ==
    LET func == IF p.func # "None" THEN p.func
                ELSE IF p.key \in DOMAIN reg THEN reg[p.key] ELSE "None"
    IN  IF func = "None"
        THEN [proxy |-> p, exc |-> ExcUnregistered, val |-> 0]
        ELSE [proxy |-> [p EXCEPT !.func = func],
              exc |-> Apply(func, x).exc, val |-> Apply(func, x).val]

\* ------------------------------------------------------------ the pool
EXTRA_QUEUED_CALLS == 1

NewFuture == [st |-> "pending", exc |-> NoExc, val |-> 0]
NewWorker(n) == [name |-> n, st |-> "starting", item |-> 0, random_seed |-> <<>>]

FuturesIn(states) == {i \in DOMAIN futures : futures[i].st \in states}
Lowest(S) == CHOOSE i \in S : \A j \in S : i <= j

\* what an idle worker may take next: the head of the call queue (local), or
\* the oldest task not yet sent (MPI)
Takeable == IF backend = "local" THEN FuturesIn({"queued"}) ELSE FuturesIn({"pending"})

\* the futures left as they are when the loop is left
CancelNothing(fs) == fs

\* the finally-clause of executor.map: future.cancel() on every future; only
\* a future that is still pending can be cancelled
CancelPending(fs) ==
    [i \in DOMAIN fs |->
       IF fs[i].st = "pending" THEN [fs[i] EXCEPT !.st = "cancelled"] ELSE fs[i]]

\* the pool left without waiting for its workers
ShutdownNoWait == TRUE

\* executor.shutdown(wait=True) has returned
ShutdownDone == \A w \in DOMAIN workers : workers[w].st = "joined"

NoCall == [via |-> "imap", f |-> "succ", s |-> <<>>, max_workers |-> <<>>,
           use_mpi |-> FALSE, seed |-> <<>>, if_serial |-> "raise"]

\* ----------------------------------------------------------------- Init
NoSeedCall == [use_mpi |-> FALSE, seed |-> <<>>, process_name |-> <<>>,
               comm_rank |-> 0, now |-> 0]

NoProxy == NewProxy(0)
NoResult == [x |-> 0, reg |-> <<>>, exc |-> NoExc, val |-> 0]

\* the host and the outcome of the module-level MPI detection
EnvInit ==
    /\ cpu_count \in 1 .. MaxCpu
    /\ start_method \in StartMethods
    /\ \/ DONT_USE_MPI = TRUE /\ mpi4py = FALSE /\ UNIVERSE_SIZE = 0
       \/ DONT_USE_MPI = FALSE /\ mpi4py = FALSE /\ UNIVERSE_SIZE = 0
       \/ DONT_USE_MPI = FALSE /\ mpi4py = TRUE /\ UNIVERSE_SIZE \in 1 .. MaxUniverse

\* no imap call is in progress
NoImap ==
    /\ FUNCTIONS = <<>>
    /\ process_counter = 0
    /\ clock = 0
    /\ call = NoCall
    /\ pc = "idle"
    /\ backend = "none"
    /\ workers = <<>>
    /\ worker_functions = <<>>
    /\ futures = <<>>
    /\ next_result = 1
    /\ out = <<>>
    /\ err = NoExc
    /\ pending_exc = NoExc
    /\ warned = 0
    /\ spawned = 0
    /\ functions_at_call = <<>>

Init ==
    /\ EnvInit
    /\ NoImap
    /\ seed_call = NoSeedCall
    /\ seed_pc = "none"
    /\ random_seed = <<>>
    /\ seed_err = NoExc
    /\ proxy = NoProxy
    /\ proxy_calls = 0
    /\ proxy_result = NoResult

\* -------------------------------------------------------------- actions

\* the body of the generator of call c, run to its first wait for a result.
\* The options are checked, the function is registered (local), the pool is
\* made, executor.map submits every item and the first submit starts the
\* workers.
Body(c) ==
    LET d == Dispatch(c)
        n == Len(c.s)
        k == IF n = 0 THEN 0 ELSE d.max_workers
        reg == IF d.kind = "local" THEN Register(FUNCTIONS, c.f) ELSE FUNCTIONS
    IN  /\ FUNCTIONS' = reg
        /\ IF d.kind = "fail" \/ ~PoolSizeOk(d.max_workers)
           THEN /\ pc' = "failed"
                /\ err' = IF d.kind = "fail" THEN d.exc ELSE ExcPoolSize
                /\ UNCHANGED <<pool, process_counter, spawned>>
           ELSE /\ pc' = IF n = 0 THEN "teardown" ELSE "waiting"
                /\ err' = NoExc
                /\ backend' = d.kind
                /\ futures' = [i \in 1 .. n |-> NewFuture]
                /\ workers' = [w \in 1 .. k |->
                                 NewWorker(IF d.kind = "local"
                                           THEN process_counter + w ELSE w - 1)]
                /\ worker_functions' = IF d.kind = "local"
                                       THEN InheritedFunctions(reg) ELSE <<>>
                /\ process_counter' = IF d.kind = "local"
                                      THEN process_counter + k ELSE process_counter
                /\ spawned' = k

\* a call that runs the body of the generator at once
NeverLazy(c) == FALSE

\* imap is a generator function: the call makes a generator and runs none of
\* its body; map is list(imap(...)), which runs it to the end
Lazy(c) == c.via = "imap"

\* imap(f, s, max_workers, use_mpi, seed, if_serial), or map of the same
Call(c) ==
    /\ pc = "idle"
    /\ process_counter < MaxProcs
    /\ call' = c
    /\ next_result' = 1
    /\ out' = <<>>
    /\ pending_exc' = NoExc
    /\ warned' = 0
    /\ functions_at_call' = FUNCTIONS
    /\ IF Lazy(c)
       THEN /\ pc' = "created"
            /\ backend' = "none"
            /\ workers' = <<>>
            /\ worker_functions' = <<>>
            /\ futures' = <<>>
            /\ err' = NoExc
            /\ spawned' = 0
            /\ UNCHANGED <<FUNCTIONS, process_counter>>
       ELSE Body(c)
    /\ UNCHANGED <<env, seedvars, proxyvars, clock>>

\* the first next() on the generator
Start ==
    /\ pc = "created"
    /\ Body(call)
    /\ UNCHANGED <<env, seedvars, proxyvars, clock, call, next_result, out,
                   pending_exc, warned, functions_at_call>>

\* the initializer run again whenever the worker is between two items
InitializerPerItem(w) == workers[w].st \in {"starting", "idle"}

\* the worker process has not run its initializer yet: the pool calls it
\* once, before the worker takes its first item
Uninitialized(w) == workers[w].st = "starting"

\* a worker process comes up; a local worker runs initializer=generate_seed
WorkerInit(w) ==
    /\ Uninitialized(w)
    /\ IF backend = "local"
       THEN \E now \in clock .. MaxClock :
              /\ call.seed = <<>> \/ now = clock
              /\ clock' = now
              /\ workers' = [workers EXCEPT
                               ![w].st = "idle",
                               ![w].random_seed =
                                   generate_seed(FALSE, call.seed,
                                                 ProcessName(workers[w].name),
                                                 0, now).random_seed]
       ELSE /\ workers' = [workers EXCEPT ![w].st = "idle"]
            /\ clock' = clock
    /\ UNCHANGED <<env, seedvars, proxyvars, FUNCTIONS, process_counter, call, pc, backend,
                   worker_functions, futures, next_result, out, err,
                   pending_exc, warned, spawned, functions_at_call>>

\* the pool's queue thread moves the oldest pending item into the call queue,
\* which holds max_workers + EXTRA_QUEUED_CALLS items; from then on the item
\* cannot be cancelled
Enqueue ==
    /\ backend = "local"
    /\ FuturesIn({"pending"}) # {}
    /\ Cardinality(FuturesIn({"queued"})) < Len(workers) + EXTRA_QUEUED_CALLS
    /\ futures' = [futures EXCEPT ![Lowest(FuturesIn({"pending"}))].st = "queued"]
    /\ UNCHANGED <<env, seedvars, proxyvars, FUNCTIONS, process_counter, clock, call, pc, backend,
                   workers, worker_functions, next_result, out, err,
                   pending_exc, warned, spawned, functions_at_call>>

\* an idle worker takes the next item
WorkerTake(w) ==
    /\ workers[w].st = "idle"
    /\ Takeable # {}
    /\ LET i == Lowest(Takeable)
       IN  /\ futures' = [futures EXCEPT ![i].st = "running"]
           /\ workers' = [workers EXCEPT ![w].st = "busy", ![w].item = i]
    /\ UNCHANGED <<env, seedvars, proxyvars, FUNCTIONS, process_counter, clock, call, pc, backend,
                   worker_functions, next_result, out, err, pending_exc,
                   warned, spawned, functions_at_call>>

\* the worker calls what it was sent on the item and sends the outcome back
WorkerFinish(w) ==
    /\ workers[w].st = "busy"
    /\ LET i == workers[w].item
           r == IF backend = "local"
                THEN ProxyCall(NewProxy(Id(call.f)), worker_functions, call.s[i])
                ELSE Apply(call.f, call.s[i])
       IN  /\ futures' = [futures EXCEPT ![i] = [st |-> "done", exc |-> r.exc,
                                                 val |-> r.val]]
           /\ workers' = [workers EXCEPT ![w].st = "idle", ![w].item = 0]
    /\ UNCHANGED <<env, seedvars, proxyvars, FUNCTIONS, process_counter, clock, call, pc, backend,
                   worker_functions, next_result, out, err, pending_exc,
                   warned, spawned, functions_at_call>>

\* `yield result`: the next result in submission order is there; list() in
\* map asks for the one after it at once
Yield ==
    /\ pc = "waiting"
    /\ futures[next_result].st = "done"
    /\ futures[next_result].exc = NoExc
    /\ out' = Append(out, futures[next_result].val)
    /\ next_result' = next_result + 1
    /\ pc' = IF call.via = "imap" THEN "yielded"
             ELSE IF next_result + 1 > Len(futures) THEN "teardown" ELSE "waiting"
    /\ UNCHANGED <<env, seedvars, proxyvars, FUNCTIONS, process_counter, clock, call, pool, err,
                   pending_exc, warned, spawned, functions_at_call>>

\* the caller asks for the next result
Resume ==
    /\ pc = "yielded"
    /\ pc' = IF next_result > Len(futures) THEN "teardown" ELSE "waiting"
    /\ UNCHANGED <<env, seedvars, proxyvars, FUNCTIONS, process_counter, clock, call, pool,
                   next_result, out, err, pending_exc, warned, spawned,
                   functions_at_call>>

\* the next result in submission order is an exception: executor.map cancels
\* the futures that can still be cancelled and the exception leaves the loop
Raise ==
    /\ pc = "waiting"
    /\ futures[next_result].st = "done"
    /\ futures[next_result].exc # NoExc
    /\ pending_exc' = futures[next_result].exc
    /\ futures' = CancelPending(futures)
    /\ pc' = "teardown"
    /\ UNCHANGED <<env, seedvars, proxyvars, FUNCTIONS, process_counter, clock, call, backend,
                   workers, worker_functions, next_result, out, err, warned,
                   spawned, functions_at_call>>

\* leaving the with-block: a worker exits once nothing is left for it
Join(w) ==
    /\ pc = "teardown"
    /\ workers[w].st = "idle"
    /\ FuturesIn({"pending", "queued"}) = {}
    /\ workers' = [workers EXCEPT ![w].st = "joined"]
    /\ UNCHANGED <<env, seedvars, proxyvars, FUNCTIONS, process_counter, clock, call, pc, backend,
                   worker_functions, futures, next_result, out, err,
                   pending_exc, warned, spawned, functions_at_call>>

\* the with-block is left: the caller sees the end of the sequence, or the
\* exception
Finish ==
    /\ pc = "teardown"
    /\ ShutdownDone
    /\ pc' = IF pending_exc = NoExc THEN "done" ELSE "failed"
    /\ err' = pending_exc
    /\ UNCHANGED <<env, seedvars, proxyvars, FUNCTIONS, process_counter, clock, call, pool,
                   next_result, out, pending_exc, warned, spawned,
                   functions_at_call>>

\* the caller drops the generator it has finished with
Return ==
    /\ pc \in {"done", "failed"}
    /\ pc' = "idle"
    /\ call' = NoCall
    /\ backend' = "none"
    /\ workers' = <<>>
    /\ worker_functions' = <<>>
    /\ futures' = <<>>
    /\ next_result' = 1
    /\ out' = <<>>
    /\ err' = NoExc
    /\ pending_exc' = NoExc
    /\ warned' = 0
    /\ spawned' = 0
    /\ functions_at_call' = FUNCTIONS
    /\ UNCHANGED <<env, seedvars, proxyvars, FUNCTIONS, process_counter, clock>>

\* the calls the caller makes: every function and series on the local pool
\* with an explicit worker count, and on the MPI pool with the default one,
\* under a seed and the default policy; and every worker count, seed and
\* policy, on either pool, for a series of at most one item; and the longest
\* series on a single local worker without a seed; and through map, a series
\* of at most one item under options that pass and options that are refused
LocalCalls ==
    [via : {"imap"}, f : Funcs, s : SeqsUpTo(MaxLen), max_workers : {<<n>> : n \in 1 .. MaxCpu},
     use_mpi : {FALSE}, seed : {<<5>>}, if_serial : {"raise"}]
    \cup [via : {"imap"}, f : {"succ"}, s : {[i \in 1 .. MaxLen |-> 1]}, max_workers : {<<1>>},
          use_mpi : {FALSE}, seed : {<<>>}, if_serial : {"raise"}]
MpiCalls ==
    [via : {"imap"}, f : Funcs, s : SeqsUpTo(MaxLen), max_workers : {<<>>},
     use_mpi : {TRUE}, seed : {<<5>>}, if_serial : {"raise"}]
OptionCalls ==
    [via : {"imap"}, f : {"succ"}, s : SeqsUpTo(1), max_workers : WorkerArgs,
     use_mpi : BOOLEAN, seed : Seeds, if_serial : Policies]
MapCalls ==
    [via : {"map"}, f : {"succ"}, s : SeqsUpTo(1),
     max_workers : {<<>>, <<MaxCpu>>}, use_mpi : BOOLEAN, seed : {<<5>>},
     if_serial : {"raise", "bogus"}]
Calls == LocalCalls \cup MpiCalls \cup OptionCalls \cup MapCalls

Next ==
    \/ /\ pc = "idle"
       /\ \E c \in Calls : Call(c)
    \/ Start
    \/ \E w \in DOMAIN workers : WorkerInit(w)
    \/ Enqueue
    \/ \E w \in DOMAIN workers : WorkerTake(w)
    \/ \E w \in DOMAIN workers : WorkerFinish(w)
    \/ Yield
    \/ Resume
    \/ Raise
    \/ \E w \in DOMAIN workers : Join(w)
    \/ Finish
    \/ Return

Spec == Init /\ [][Next]_vars

\* ------------------------------------------------ generate_seed on its own

\* the processes generate_seed is called in: the submitting process and the
\* processes it creates
ProcessNames == {MainProcess} \cup {ProcessName(n) : n \in 1 .. MaxNames}

SeedCalls ==
    [use_mpi : BOOLEAN, seed : Seeds, process_name : ProcessNames,
     comm_rank : 0 .. (IF UNIVERSE_SIZE > 0 THEN UNIVERSE_SIZE - 1 ELSE 0),
     now : 0 .. MaxClock]

SeedInit ==
    /\ EnvInit
    /\ NoImap
    /\ seed_call \in SeedCalls
    /\ seed_pc = "ready"
    /\ random_seed = <<>>
    /\ seed_err = NoExc
    /\ proxy = NoProxy
    /\ proxy_calls = 0
    /\ proxy_result = NoResult

\* generate_seed(use_mpi, seed) runs in the process of seed_call
GenerateSeed ==
    /\ seed_pc = "ready"
    /\ LET r == generate_seed(seed_call.use_mpi, seed_call.seed,
                              seed_call.process_name, seed_call.comm_rank,
                              seed_call.now)
       IN  /\ seed_pc' = IF r.exc = NoExc THEN "returned" ELSE "raised"
           /\ seed_err' = r.exc
           /\ random_seed' = IF r.exc = NoExc THEN r.random_seed ELSE random_seed
    /\ UNCHANGED <<env, proxyvars, seed_call, FUNCTIONS, process_counter, clock, call, pc,
                   pool, next_result, out, err, pending_exc, warned, spawned,
                   functions_at_call>>

SeedNext == GenerateSeed

SeedSpec == SeedInit /\ [][SeedNext]_vars

\* ------------------------------------------ PicklableAndCallable on its own

\* the keys a proxy is made with: id(f) of the functions
Keys == {Id(f) : f \in Funcs}

ProxyInit ==
    /\ EnvInit
    /\ NoImap
    /\ seed_call = NoSeedCall
    /\ seed_pc = "none"
    /\ random_seed = <<>>
    /\ seed_err = NoExc
    /\ proxy \in {NewProxy(k) : k \in Keys}
    /\ proxy_calls = 0
    /\ proxy_result = NoResult

\* proxy(x)
ProxyInvoke(x) ==
    /\ proxy_calls < MaxInvocations
    /\ LET r == ProxyCall(proxy, FUNCTIONS, x)
       IN  /\ proxy' = r.proxy
           /\ proxy_result' = [x |-> x, reg |-> FUNCTIONS, exc |-> r.exc,
                               val |-> r.val]
    /\ proxy_calls' = proxy_calls + 1
    /\ UNCHANGED <<env, seedvars, FUNCTIONS, process_counter, clock, call, pc,
                   pool, next_result, out, err, pending_exc, warned, spawned,
                   functions_at_call>>

\* _FUNCTIONS[k] = f: an entry is stored, over the one that was there if any
RegistryStore(k, f) ==
    /\ FUNCTIONS' = (k :> f) @@ FUNCTIONS
    /\ UNCHANGED <<env, seedvars, proxyvars, process_counter, clock, call, pc,
                   pool, next_result, out, err, pending_exc, warned, spawned,
                   functions_at_call>>

\* del _FUNCTIONS[k]
RegistryDelete(k) ==
    /\ k \in DOMAIN FUNCTIONS
    /\ FUNCTIONS' = [j \in DOMAIN FUNCTIONS \ {k} |-> FUNCTIONS[j]]
    /\ UNCHANGED <<env, seedvars, proxyvars, process_counter, clock, call, pc,
                   pool, next_result, out, err, pending_exc, warned, spawned,
                   functions_at_call>>

ProxyNext ==
    \/ \E x \in Items : ProxyInvoke(x)
    \/ \E k \in Keys, f \in Funcs : RegistryStore(k, f)
    \/ \E k \in Keys : RegistryDelete(k)

ProxySpec == ProxyInit /\ [][ProxyNext]_vars

\* ================================================================ claims

\* [f(x) for x in s]
Expected(c) == [i \in 1 .. Len(c.s) |-> Apply(c.f, c.s[i]).val]
\* the positions of s on which f raises
Raising(c) == {i \in 1 .. Len(c.s) : Apply(c.f, c.s[i]).exc # NoExc}
\* the body of the generator has run
Entered == pc \notin {"idle", "created"}
\* the generator has ended, with the end of the sequence or an exception
Completed == pc \in {"done", "failed"}
\* the policy is one of the three recognized values, as the caller wrote it
Recognized(p) == p \in {"raise", "warn", "ignore"}
\* mpi4py is there and reports a universe of exactly one slot
OneSlot == ~DONT_USE_MPI /\ mpi4py /\ UNIVERSE_SIZE = 1
\* the caller passed a max_workers other than None
Supplied == call.max_workers # <<>>
NoWorkerAlive == \A w \in DOMAIN workers : workers[w].st = "joined"

\* C1: on the local backend, with 1 <= max_workers < cpu_count and a function
\* that raises on no item of s, the drained sequence is [f(x) for x in s],
\* position for position.
C1_LocalMapInOrder ==
    (/\ Completed
     /\ ~call.use_mpi
     /\ Recognized(Lower(call.if_serial))
     /\ Supplied /\ 1 <= call.max_workers[1] /\ call.max_workers[1] < cpu_count
     /\ Raising(call) = {})
    => (pc = "done" /\ out = Expected(call))

\* C1 where workers are forked: the same statement, which the code meets
C1_LocalMapInOrder_Forked == start_method = "fork" => C1_LocalMapInOrder

\* a pool of two forked workers has handed the caller two different results
C1_Forked_Witness ==
    /\ pc = "done" /\ backend = "local" /\ Len(workers) = 2
    /\ Len(out) = 2 /\ out[1] # out[2]

\* C2: when f raises first on item k, the caller receives the results of the
\* items before k in input order, then f's own exception, and by then every
\* worker of the call has been joined.
C2_RaiseAfterPrefix ==
    (/\ Completed
     /\ backend # "none"
     /\ Raising(call) # {})
    => LET k == Lowest(Raising(call))
       IN  /\ pc = "failed"
           /\ err = ExcUser
           /\ out = SubSeq(Expected(call), 1, k - 1)
           /\ NoWorkerAlive

\* C2 where workers are forked or the pool is the MPI one
C2_RaiseAfterPrefix_Forked ==
    (start_method = "fork" \/ backend = "mpi") => C2_RaiseAfterPrefix

\* C3: once a call has completed, the registry is as large as before the
\* first call, when it was empty.
C3_RegistryBackToBaseline ==
    Completed => Cardinality(DOMAIN FUNCTIONS) = 0

\* C4: with base seed b and k workers, the seeds the workers of a local pool
\* store are b + r for r in 0 .. k-1.
C4_SeedsAreBasePlusRank ==
    (/\ backend = "local"
     /\ call.seed # <<>>
     /\ \A w \in DOMAIN workers : workers[w].random_seed # <<>>)
    => {workers[w].random_seed[1] : w \in DOMAIN workers}
         = {call.seed[1] + r : r \in 0 .. Len(workers) - 1}

\* what C5 says of a refused policy: the call has failed with the policy
\* error, no worker was started and the registry is as the call found it
RefusedPolicy ==
    /\ pc = "failed"
    /\ err = ExcInvalidChoice
    /\ spawned = 0 /\ workers = <<>>
    /\ FUNCTIONS = functions_at_call

\* C5 as stated: every policy other than 'raise', 'warn' and 'ignore' is
\* refused before any worker is started or any registry entry inserted.
C5_AnyOtherPolicyRefused ==
    (Entered /\ ~Recognized(call.if_serial)) => RefusedPolicy

\* C5 amended: every policy whose lower-cased form is other than 'raise',
\* 'warn' and 'ignore' is refused before any worker is started or any
\* registry entry inserted.
C5_OtherPolicyRefused ==
    (Entered /\ ~Recognized(Lower(call.if_serial))) => RefusedPolicy

C5_Witness == pc = "failed" /\ call.if_serial = "bogus" /\ err = ExcInvalidChoice

\* C6: on the local backend a supplied max_workers >= cpu_count, in a call
\* whose policy is accepted, fails the worker-count assertion, and no worker
\* process is started.
C6_TooManyWorkersRefused ==
    (/\ Entered
     /\ ~call.use_mpi
     /\ Recognized(Lower(call.if_serial))
     /\ Supplied /\ call.max_workers[1] >= cpu_count)
    => (/\ pc = "failed"
        /\ err = ExcWorkerCount
        /\ spawned = 0 /\ workers = <<>>)

C6_Witness ==
    /\ pc = "failed" /\ err = ExcWorkerCount
    /\ ~call.use_mpi /\ call.max_workers = <<cpu_count>>

\* C7: distributed execution with exactly one slot and policy 'raise' fails
\* with the error that carries the launch guidance, and no pool is created.
C7_OneSlotRaiseIsSerialError ==
    (Entered /\ call.use_mpi /\ OneSlot /\ call.if_serial = "raise")
    => (pc = "failed" /\ err = ExcSerial /\ backend = "none")

\* C8: distributed execution with exactly one slot and policy 'warn' or
\* 'ignore' raises nothing and ends with the results in input order, after
\* one warning for 'warn' and none for 'ignore'.
C8_OneSlotWarnIgnoreProceeds ==
    (Entered /\ call.use_mpi /\ OneSlot /\ call.if_serial \in {"warn", "ignore"})
    => (/\ pc # "failed"
        /\ pc = "done" => (/\ out = Expected(call)
                           /\ warned = IF call.if_serial = "warn" THEN 1 ELSE 0))

\* C9: distributed execution requested while the runtime is disabled by the
\* flag or mpi4py is not importable fails with 'Cannot use MPI' before any
\* pool is created, for every accepted policy and every max_workers.
C9_MpiUnavailableRefused ==
    (/\ Entered
     /\ call.use_mpi
     /\ (DONT_USE_MPI \/ ~mpi4py)
     /\ Recognized(Lower(call.if_serial)))
    => (/\ pc = "failed"
        /\ err = ExcCannotUseMPI
        /\ backend = "none"
        /\ spawned = 0 /\ workers = <<>>)

C9_Witness ==
    /\ pc = "failed" /\ err = ExcCannotUseMPI
    /\ call.use_mpi /\ ~DONT_USE_MPI /\ ~mpi4py /\ call.if_serial = "ignore"

\* C10: when the caller is told the sequence is exhausted, every worker of
\* the call's pool has been joined.
C10_JoinedBeforeExhaustion == pc = "done" => NoWorkerAlive

C10_Witness ==
    /\ pc = "done" /\ backend = "local" /\ Len(workers) = 2 /\ Len(out) = 2

C10_WitnessMpi ==
    /\ pc = "done" /\ backend = "mpi" /\ Len(workers) = 2 /\ Len(out) = 1

\* the generator is leaving the with-block because of an exception
FailureTeardown == pc = "teardown" /\ pending_exc # NoExc
\* the futures that start running in this step
Starting == {i \in DOMAIN futures : futures[i].st # "running" /\ futures'[i].st = "running"}

\* C11 as stated: once the failure has been observed no item that had not
\* started starts, and the caller gets the exception only after teardown.
C11_NothingStartsAfterFailure ==
    [][FailureTeardown => (/\ Starting = {}
                           /\ pc' = "failed" => NoWorkerAlive)]_vars

\* C11 amended: once the failure has been observed the items not yet handed
\* to the pool's call queue are cancelled and never start, the items already
\* in the call queue are the only ones that still start, and the caller gets
\* the exception only after every worker has been joined.
C11_OnlyQueuedStartAfterFailure ==
    [][FailureTeardown => (/\ FuturesIn({"pending"}) = {}
                           /\ \A i \in Starting : futures[i].st = "queued"
                           /\ pc' = "failed" => NoWorkerAlive)]_vars

\* a failure has been observed while an item behind it sits in the call
\* queue, and another one while the item behind it was cancelled
C11_Witness ==
    /\ FailureTeardown /\ backend = "local"
    /\ FuturesIn({"queued"}) # {}

C11_WitnessCancelled ==
    /\ FailureTeardown /\ backend = "local"
    /\ FuturesIn({"cancelled"}) # {}

\* the errors that say the worker count is not acceptable
WorkerCountErrors == {ExcWorkerCount, ExcPoolSize}

\* C12 as stated: on the local backend a supplied max_workers of zero or
\* less, or a default of cpu_count - 1 = 0, fails with a worker-count error
\* before any worker is spawned.
C12_NonPositiveWorkersRefused ==
    (/\ Entered
     /\ ~call.use_mpi
     /\ Recognized(Lower(call.if_serial))
     /\ \/ Supplied /\ call.max_workers[1] <= 0
        \/ ~Supplied /\ cpu_count - 1 = 0)
    => (/\ pc = "failed"
        /\ err \in WorkerCountErrors
        /\ spawned = 0 /\ workers = <<>>)

\* C12 amended: on the local backend a call whose worker count, after a
\* max_workers of None or 0 has been replaced by cpu_count - 1, is zero or
\* less fails in the pool constructor, after the registry insert and before
\* any worker is spawned.
C12_NonPositiveEffectiveWorkersRefused ==
    (/\ Entered
     /\ ~call.use_mpi
     /\ Recognized(Lower(call.if_serial))
     /\ EffectiveWorkers(call.max_workers, cpu_count - 1) <= 0)
    => (/\ pc = "failed"
        /\ err = ExcPoolSize
        /\ FUNCTIONS = Register(functions_at_call, call.f)
        /\ spawned = 0 /\ workers = <<>>)

C12_Witness ==
    /\ pc = "failed" /\ err = ExcPoolSize
    /\ ~call.use_mpi /\ call.max_workers = <<-1>>

C12_WitnessSingleCpu ==
    /\ pc = "failed" /\ err = ExcPoolSize
    /\ ~call.use_mpi /\ call.max_workers = <<>> /\ cpu_count = 1

\* C13 as stated: the distributed pool is created with fewer workers than
\* there are slots in the universe, UNIVERSE_SIZE - 1 of them when max_workers
\* is not supplied.
C13_MpiWorkersBelowUniverse ==
    (backend = "mpi" /\ workers # <<>>)
    => (/\ Len(workers) < UNIVERSE_SIZE
        /\ ~Supplied => Len(workers) = UNIVERSE_SIZE - 1)

\* the seed the caller gave, or the time of the call
SeedBase == IF seed_call.seed # <<>> THEN seed_call.seed[1] ELSE seed_call.now
\* the name of the process does not end in a digit
RankUnknown == ~IsDigit(seed_call.process_name[Len(seed_call.process_name)])

\* C14 as stated: generate_seed never fails; in every process and under every
\* process name it stores a seed, and it uses rank 0 when the process name
\* gives no rank.
C14_GenerateSeedNeverFails ==
    seed_pc \notin {"none", "ready"}
    => (/\ seed_pc = "returned"
        /\ seed_err = NoExc
        /\ random_seed # <<>>
        /\ (~seed_call.use_mpi /\ RankUnknown) => random_seed = <<SeedBase>>)

\* C15: the seed of a worker process is stored when the process starts, before
\* it takes an item, and is never stored again: no step changes the seed a
\* worker holds, whether the caller gave a base seed or not.
C15_SeedFixedAtStartup ==
    [][\A w \in DOMAIN workers :
         /\ (backend = "local" /\ workers[w].st # "starting")
            => workers[w].random_seed # <<>>
         /\ (w \in DOMAIN workers' /\ workers[w].random_seed # <<>>)
            => workers'[w].random_seed = workers[w].random_seed]_vars

\* the only worker of a pool is on its second item, under no base seed
C15_Witness ==
    /\ backend = "local" /\ call.seed = <<>>
    /\ Len(workers) = 1
    /\ workers[1].st = "busy" /\ workers[1].item = 2
    /\ futures[1].st = "done"
    /\ workers[1].random_seed # <<>>

C15_WitnessBaseSeed ==
    /\ backend = "local" /\ call.seed # <<>>
    /\ Len(workers) = 1
    /\ workers[1].st = "busy" /\ workers[1].item = 2
    /\ workers[1].random_seed # <<>>

\* C16 as stated: on the local pool the function is in the registry before a
\* worker starts, so in every worker the proxy's key resolves to the caller's
\* function and no item fails as unregistered, under fork and under spawn.
C16_HandleResolvesInEveryWorker ==
    (backend = "local" /\ workers # <<>>)
    => (/\ Id(call.f) \in DOMAIN FUNCTIONS
        /\ Id(call.f) \in DOMAIN worker_functions
        /\ worker_functions[Id(call.f)] = call.f
        /\ \A i \in DOMAIN futures : futures[i].exc # ExcUnregistered
        /\ err # ExcUnregistered)

\* what the last invocation of proxy gave
Outcome(r) == [exc |-> r.exc, val |-> r.val]

\* C17: an invocation of a proxy that holds no function fails as unregistered
\* while its key is absent, and holds the registry's function from the first
\* invocation that finds the key; a proxy that holds a function calls that
\* function on every later invocation, whatever the registry holds by then.
C17_ProxyCachesFirstResolution ==
    [][/\ proxy_calls' = proxy_calls => proxy' = proxy
       /\ proxy_calls' = proxy_calls + 1 =>
            /\ (proxy.func = "None" /\ proxy.key \notin DOMAIN FUNCTIONS)
               => (/\ proxy_result'.exc = ExcUnregistered
                   /\ proxy'.func = "None")
            /\ (proxy.func = "None" /\ proxy.key \in DOMAIN FUNCTIONS)
               => (/\ proxy'.func = FUNCTIONS[proxy.key]
                   /\ Outcome(proxy_result')
                        = Apply(FUNCTIONS[proxy.key], proxy_result'.x))
            /\ proxy.func # "None"
               => (/\ proxy'.func = proxy.func
                   /\ Outcome(proxy_result')
                        = Apply(proxy.func, proxy_result'.x))]_vars

\* a proxy was invoked, and returned, after its entry had been removed
C17_Witness ==
    /\ proxy_calls >= 2
    /\ proxy.func # "None"
    /\ proxy.key \notin DOMAIN proxy_result.reg
    /\ proxy_result.exc = NoExc

\* ... and after its entry had been overwritten with another function
C17_WitnessOverwritten ==
    /\ proxy_calls >= 2
    /\ proxy.key \in DOMAIN proxy_result.reg
    /\ proxy_result.reg[proxy.key] # proxy.func
    /\ Outcome(proxy_result) = Apply(proxy.func, proxy_result.x)

\* ... and failed because its key was absent
C17_WitnessAbsent ==
    /\ proxy_calls >= 1
    /\ proxy.func = "None"
    /\ proxy_result.exc = ExcUnregistered

\* C18: every key of the registry maps to the function whose identity is the
\* key, and no step of any call removes an entry or changes what is stored
\* under a key that is present.
C18_KeyIsIdentityOfItsFunction ==
    [][/\ \A k \in DOMAIN FUNCTIONS' : Id(FUNCTIONS'[k]) = k
       /\ \A k \in DOMAIN FUNCTIONS :
            /\ Id(FUNCTIONS[k]) = k
            /\ k \in DOMAIN FUNCTIONS'
            /\ FUNCTIONS'[k] = FUNCTIONS[k]]_vars

\* a second function is in the registry while a later call runs
C18_Witness ==
    /\ backend = "local" /\ pc = "waiting"
    /\ functions_at_call # <<>>
    /\ Id(call.f) \notin DOMAIN functions_at_call
    /\ Cardinality(DOMAIN FUNCTIONS) = 2

\* a later call has stored the function of an earlier call again
C18_WitnessSameFunction ==
    /\ backend = "local" /\ pc = "waiting"
    /\ Id(call.f) \in DOMAIN functions_at_call
    /\ FUNCTIONS = functions_at_call

\* C19: a call of imap changes nothing but the caller's hold on a new
\* generator; until the first next() no error has been raised, the registry
\* is as the call found it and no worker exists.  A call whose options are
\* refused fails with that error at the first next(), and a call of map fails
\* with it in the step of the call.
C19_ImapLazyMapEager ==
    [][/\ (pc = "idle" /\ pc' # "idle" /\ call'.via = "imap")
          => (/\ pc' = "created"
              /\ err' = NoExc /\ warned' = 0
              /\ FUNCTIONS' = FUNCTIONS
              /\ spawned' = 0 /\ workers' = <<>>)
       /\ pc = "created"
          => (/\ err = NoExc
              /\ FUNCTIONS = functions_at_call
              /\ spawned = 0 /\ workers = <<>>
              /\ Dispatch(call).kind = "fail"
                 => (pc' = "failed" /\ err' = Dispatch(call).exc))
       /\ (pc = "idle" /\ pc' # "idle" /\ call'.via = "map"
           /\ Dispatch(call').kind = "fail")
          => (pc' = "failed" /\ err' = Dispatch(call').exc)]_vars

\* imap was called with a policy that will be refused, and nothing has
\* happened yet
C19_Witness ==
    /\ pc = "created" /\ call.via = "imap"
    /\ Dispatch(call).kind = "fail"
    /\ err = NoExc

\* map has failed with the refusal
C19_WitnessMap ==
    /\ pc = "failed" /\ call.via = "map"
    /\ Dispatch(call).kind = "fail"
    /\ err = Dispatch(call).exc
    /\ out = <<>>

====
